---- MODULE Spec2Model ----
(***************************************************************************)
(* Model of rust/cmsis-pack/src/pdsc/device.rs: the PDSC <devices> parser. *)
(* The parser is a pure function of an XML tree.  The tree is a value of   *)
(* the model (an element is a record of tag, attributes and children, in   *)
(* document order), every function of the source is an operator with the   *)
(* source's name, and the state machine is the try_fold loop of            *)
(* Devices::from_elem, one <family> per step.                              *)
(***************************************************************************)
EXTENDS Integers, Sequences, FiniteSets, TLC

VARIABLES doc, idx, res, status, log, ops, sums

vars == <<doc, idx, res, status, log, ops, sums>>

(***************************************************************************)
(* Option<T>, Result<T, Error> and a panic (unreachable!()).               *)
(***************************************************************************)
None == <<>>
Some(x) == <<x>>
Or(a, b) == IF a # None THEN a ELSE b
UnwrapOr(a, d) == IF a # None THEN a[1] ELSE d

Ok(x) == [tag |-> "Ok", v |-> <<x>>]
Err(m) == [tag |-> "Err", v |-> <<m>>]
Panic(m) == [tag |-> "Panic", v |-> <<m>>]
IsOk(r) == r.tag = "Ok"
Val(r) == r.v[1]
OkOpt(r) == IF r.tag = "Ok" THEN r.v ELSE None

(***************************************************************************)
(* XML nodes (roxmltree::Node): tag name, attributes as a set of           *)
(* <<name, value>> pairs with unique names, children in document order.    *)
(***************************************************************************)
E(tag, attrs, children) == [tag |-> tag, attrs |-> attrs, children |-> children]

attribute(e, n) ==
    LET s == {p \in e.attrs : p[1] = n}
    IN  IF s = {} THEN None ELSE Some((CHOOSE p \in s : TRUE)[2])

(***************************************************************************)
(* HashMap<K, V> as a set of <<key, value>> pairs with unique keys.        *)
(***************************************************************************)
Keys(m) == {p[1] : p \in m}
contains_key(m, k) == \E p \in m : p[1] = k
Get(m, k) == (CHOOSE p \in m : p[1] = k)[2]
insert(m, k, v) == {p \in m : p[1] # k} \cup {<<k, v>>}

(***************************************************************************)
(* Attribute scalar parsers.  Strings cannot be taken apart character by   *)
(* character, so each FromStr is the table of the source restricted to the *)
(* strings the documents below use; every other string is an error.        *)
(***************************************************************************)
Core_from_str(from) ==
    CASE from = "Cortex-M0" -> Ok("CortexM0")
      [] from = "Cortex-M0+" -> Ok("CortexM0Plus")
      [] from = "Cortex-M1" -> Ok("CortexM1")
      [] from = "Cortex-M3" -> Ok("CortexM3")
      [] from = "Cortex-M4" -> Ok("CortexM4")
      [] from = "Cortex-M7" -> Ok("CortexM7")
      [] from = "Cortex-M23" -> Ok("CortexM23")
      [] from = "Cortex-M33" -> Ok("CortexM33")
      [] from = "Cortex-M35P" -> Ok("CortexM35P")
      [] from = "Cortex-M55" -> Ok("CortexM55")
      [] from = "Cortex-M85" -> Ok("CortexM85")
      [] from = "Star-MC1" -> Ok("StarMC1")
      [] from = "SC000" -> Ok("SC000")
      [] from = "SC300" -> Ok("SC300")
      [] from = "ARMV8MBL" -> Ok("ARMV8MBL")
      [] from = "ARMV8MML" -> Ok("ARMV8MML")
      [] from = "Cortex-R4" -> Ok("CortexR4")
      [] from = "Cortex-R5" -> Ok("CortexR5")
      [] from = "Cortex-R7" -> Ok("CortexR7")
      [] from = "Cortex-R8" -> Ok("CortexR8")
      [] from = "Cortex-A5" -> Ok("CortexA5")
      [] from = "Cortex-A7" -> Ok("CortexA7")
      [] from = "Cortex-A8" -> Ok("CortexA8")
      [] from = "Cortex-A9" -> Ok("CortexA9")
      [] from = "Cortex-A15" -> Ok("CortexA15")
      [] from = "Cortex-A17" -> Ok("CortexA17")
      [] from = "Cortex-A32" -> Ok("CortexA32")
      [] from = "Cortex-A35" -> Ok("CortexA35")
      [] from = "Cortex-A53" -> Ok("CortexA53")
      [] from = "Cortex-A57" -> Ok("CortexA57")
      [] from = "Cortex-A72" -> Ok("CortexA72")
      [] from = "Cortex-A73" -> Ok("CortexA73")
      [] from = "*" -> Ok("Any")
      [] OTHER -> Err("Unknown core")

FPU_from_str(from) ==
    CASE from = "FPU" -> Ok("SinglePrecision")
      [] from = "SP_FPU" -> Ok("SinglePrecision")
      [] from = "1" -> Ok("SinglePrecision")
      [] from = "None" -> Ok("None")
      [] from = "0" -> Ok("None")
      [] from = "DP_FPU" -> Ok("DoublePrecision")
      [] from = "2" -> Ok("DoublePrecision")
      [] OTHER -> Err("Unknown fpu")

MPU_from_str(from) ==
    CASE from = "MPU" -> Ok("Present")
      [] from = "1" -> Ok("Present")
      [] from = "None" -> Ok("NotPresent")
      [] from = "0" -> Ok("NotPresent")
      [] OTHER -> Err("Unknown fpu")

NumberBool_from_str(from) ==
    CASE from = "true" -> Ok(TRUE)
      [] from = "1" -> Ok(TRUE)
      [] from = "false" -> Ok(FALSE)
      [] from = "0" -> Ok(FALSE)
      [] OTHER -> Err("unkown boolean found in merory startup")

AlgorithmStyle_from_str(from) ==
    CASE from = "Keil" -> Ok("Keil")
      [] from = "IAR" -> Ok("IAR")
      [] from = "CMSIS" -> Ok("CMSIS")
      [] OTHER -> Err("Unknown algorithm style")

String_from_str(from) == Ok(from)

\* u8 / u32 / usize from a decimal numeral (one digit in the documents below).
Digits == <<"0", "1", "2", "3", "4", "5", "6", "7", "8", "9">>
uint_from_str(from) ==
    IF \E n \in 1..Len(Digits) : Digits[n] = from
    THEN Ok((CHOOSE n \in 1..Len(Digits) : Digits[n] = from) - 1)
    ELSE Err("invalid digit found in string")

\* Hexadecimal with 0x / 0X, decimal without.
HexNumerals ==
    { <<"0x0", 0>>, <<"0x10", 16>>, <<"0X10", 16>>, <<"0x20", 32>>, <<"0x100", 256>>,
      <<"0x1000", 4096>>, <<"0x2000", 8192>>, <<"16", 16>>, <<"0", 0>>, <<"4096", 4096>> }
hex_from_str(from) ==
    IF contains_key(HexNumerals, from) THEN Ok(Get(HexNumerals, from))
    ELSE Err("invalid digit found in string")

\* utils::parse::attr_map / attr_parse::<T> / attr_parse_hex: the attribute must be
\* there, and T::from_str must accept it.
attr_map(e, n) ==
    IF attribute(e, n) = None THEN Err("attribute not found") ELSE Ok(attribute(e, n)[1])
attr_parse_Core(e, n) == IF IsOk(attr_map(e, n)) THEN Core_from_str(Val(attr_map(e, n))) ELSE attr_map(e, n)
attr_parse_FPU(e, n) == IF IsOk(attr_map(e, n)) THEN FPU_from_str(Val(attr_map(e, n))) ELSE attr_map(e, n)
attr_parse_MPU(e, n) == IF IsOk(attr_map(e, n)) THEN MPU_from_str(Val(attr_map(e, n))) ELSE attr_map(e, n)
attr_parse_NumberBool(e, n) ==
    IF IsOk(attr_map(e, n)) THEN NumberBool_from_str(Val(attr_map(e, n))) ELSE attr_map(e, n)
attr_parse_AlgorithmStyle(e, n) ==
    IF IsOk(attr_map(e, n)) THEN AlgorithmStyle_from_str(Val(attr_map(e, n))) ELSE attr_map(e, n)
attr_parse_String(e, n) == IF IsOk(attr_map(e, n)) THEN String_from_str(Val(attr_map(e, n))) ELSE attr_map(e, n)
attr_parse_uint(e, n) == IF IsOk(attr_map(e, n)) THEN uint_from_str(Val(attr_map(e, n))) ELSE attr_map(e, n)
attr_parse_hex(e, n) == IF IsOk(attr_map(e, n)) THEN hex_from_str(Val(attr_map(e, n))) ELSE attr_map(e, n)

\* utils::ResultLogExt::ok_warn: an error becomes a warning in the log and no value.
ok_warn(r) == IF IsOk(r) THEN r.v ELSE None
warning(r) == IF IsOk(r) THEN <<>> ELSE r.v

(***************************************************************************)
(* Processor builders and their expansion                                  *)
(***************************************************************************)
\* A merge in which the other side's fields come first.
ProcessorBuilder_merge_other_first(self, other) ==
    [core |-> Or(other.core, self.core),
     units |-> Or(other.units, self.units),
     name |-> Or(self.name, other.name),
     fpu |-> Or(other.fpu, self.fpu),
     mpu |-> Or(other.mpu, self.mpu)]

ProcessorBuilder_merge(self, other) ==
    [core |-> Or(self.core, other.core),
     units |-> Or(self.units, other.units),
     name |-> Or(self.name, other.name),
     fpu |-> Or(self.fpu, other.fpu),
     mpu |-> Or(self.mpu, other.mpu)]

\* The filter of ProcessorBuilder::build: Pname and Punit of a <debug>, when
\* present, must match.
debugs_iterator(debugs, name, unit) ==
    SelectSeq(debugs, LAMBDA debug :
        /\ (debug.name = None \/ debug.name = name)
        /\ (debug.unit = None \/ debug.unit[1] = unit))

\* Iterator::find_map over the Option-valued field f of the records of s.
RECURSIVE find_map(_, _)
find_map(s, f) ==
    IF s = <<>> THEN None
    ELSE IF Head(s)[f] # None THEN Head(s)[f]
    ELSE find_map(Tail(s), f)

AccessPort_Index(n) == [kind |-> "Index", v |-> n]
AccessPort_Address(a) == [kind |-> "Address", v |-> a]
AccessPort_default == AccessPort_Index(0)

ProcessorBuilder_unit(self, debugs, unit) ==
    LET it == debugs_iterator(debugs, self.name, unit)
    IN  [core |-> self.core[1],
         fpu |-> UnwrapOr(self.fpu, "None"),
         mpu |-> UnwrapOr(self.mpu, "NotPresent"),
         dp |-> UnwrapOr(find_map(it, "dp"), 0),
         ap |-> UnwrapOr(find_map(it, "ap"), AccessPort_default),
         address |-> find_map(it, "address"),
         svd |-> find_map(it, "svd"),
         name |-> self.name,
         unit |-> unit,
         default_reset_sequence |-> find_map(it, "default_reset_sequence")]

ProcessorBuilder_build_single(self, debugs) ==
    IF self.core = None THEN Err("No Core found!")
    ELSE Ok(<<ProcessorBuilder_unit(self, debugs, 0)>>)

ProcessorBuilder_build(self, debugs) ==
    LET units == UnwrapOr(self.units, 1)
    IN  IF units > 0 /\ self.core = None THEN Err("No Core found!")
        ELSE Ok([u \in 1..units |-> ProcessorBuilder_unit(self, debugs, u - 1)])

ProcessorBuilder_from_elem(e) ==
    [core |-> OkOpt(attr_parse_Core(e, "Dcore")),
     units |-> OkOpt(attr_parse_uint(e, "Punits")),
     fpu |-> OkOpt(attr_parse_FPU(e, "Dfpu")),
     mpu |-> OkOpt(attr_parse_MPU(e, "Dmpu")),
     name |-> OkOpt(attr_parse_String(e, "Pname"))]

\* collect::<HashMap<_, _>>() of (p.name, p): a later entry replaces an earlier
\* one with the same key.
RECURSIVE collect_by_name(_, _)
collect_by_name(s, m) ==
    IF s = <<>> THEN m
    ELSE collect_by_name(Tail(s), insert(m, Head(s).name, Head(s)))

\* The loop of ProcessorsBuilder::merge over the parent's builders.
RECURSIVE merge_parents(_, _)
merge_parents(current, parents) ==
    IF parents = <<>> THEN current
    ELSE LET parent == Head(parents)
             entry == IF contains_key(current, parent.name)
                      THEN Get(current, parent.name) ELSE parent
         IN  merge_parents(insert(current, parent.name, ProcessorBuilder_merge(entry, parent)),
                           Tail(parents))

\* HashMap::into_values: the values in the map's iteration order.  The order is
\* not specified; hash_order, a sequence of all keys, stands for it.
RECURSIVE into_values(_, _)
into_values(m, hash_order) ==
    IF hash_order = <<>> THEN <<>>
    ELSE (IF contains_key(m, Head(hash_order)) THEN <<Get(m, Head(hash_order))>> ELSE <<>>)
         \o into_values(m, Tail(hash_order))

ProcessorsBuilder_merge(self, parent, hash_order) ==
    IF parent # None
    THEN Ok(into_values(merge_parents(collect_by_name(self, {}), parent[1]), hash_order))
    ELSE Ok(self)

ProcessorsBuilder_merge_into(self, other) == self \o other

RECURSIVE ProcessorsBuilder_build(_, _)
ProcessorsBuilder_build(self, debugs) ==
    IF self = <<>> THEN Ok(<<>>)
    ELSE LET first == ProcessorBuilder_build(Head(self), debugs)
             rest == ProcessorsBuilder_build(Tail(self), debugs)
         IN  IF ~IsOk(first) THEN first
             ELSE IF ~IsOk(rest) THEN rest
             ELSE Ok(Val(first) \o Val(rest))

ProcessorsBuilder_from_elem(e) == Ok(<<ProcessorBuilder_from_elem(e)>>)

(***************************************************************************)
(* <debug> elements and the access port descriptors of their parent        *)
(***************************************************************************)
\* str::starts_with("accessportV"), over the tag names the documents use.
starts_with_accessportV(tag) ==
    tag \in {"accessportV", "accessportV1", "accessportV2", "accessportV3"}

\* Iterator::find over the children of p: the first accessportV* child whose
\* __apid parses and equals apid.
RECURSIVE find_access_port(_, _)
find_access_port(children, apid) ==
    IF children = <<>> THEN None
    ELSE IF /\ starts_with_accessportV(Head(children).tag)
            /\ IsOk(attr_parse_uint(Head(children), "__apid"))
            /\ Val(attr_parse_uint(Head(children), "__apid")) = apid
         THEN Some(Head(children))
         ELSE find_access_port(Tail(children), apid)

DebugBuilder_fields(e, dp, ap) ==
    [dp |-> dp,
     ap |-> ap,
     address |-> OkOpt(attr_parse_uint(e, "address")),
     svd |-> OkOpt(attr_parse_String(e, "svd")),
     name |-> OkOpt(attr_parse_String(e, "Pname")),
     unit |-> OkOpt(attr_parse_uint(e, "Punit")),
     default_reset_sequence |-> OkOpt(attr_parse_String(e, "defaultResetSequence"))]

map_Index(o) == IF o = None THEN None ELSE Some(AccessPort_Index(o[1]))
map_Address(o) == IF o = None THEN None ELSE Some(AccessPort_Address(o[1]))

\* The match on the tag of the access port that find gave.
from_access_port(e, ap) ==
    IF ap = None THEN Err("Unable do find Access Port with id")
    ELSE IF ap[1].tag = "accessportV1"
    THEN Ok(DebugBuilder_fields(e,
              OkOpt(attr_parse_uint(ap[1], "__dp")),
              map_Index(OkOpt(attr_parse_uint(ap[1], "index")))))
    ELSE IF ap[1].tag = "accessportV2"
    THEN Ok(DebugBuilder_fields(e,
              OkOpt(attr_parse_uint(ap[1], "__dp")),
              map_Address(OkOpt(attr_parse_hex(ap[1], "address")))))
    ELSE Panic("internal error: entered unreachable code")

\* let __apid: u32 = attr_parse(e, "__apid")?; and the search for its access port.
with_apid(e, p, apid) ==
    IF ~IsOk(apid) THEN apid
    ELSE from_access_port(e, find_access_port(p.children, Val(apid)))

\* A resolver that takes the access port path whenever the element has an __apid.
DebugBuilder_from_elem_and_parent_by_apid(e, p) ==
    IF attribute(e, "__apid") # None
    THEN with_apid(e, p, attr_parse_uint(e, "__apid"))
    ELSE Ok(DebugBuilder_fields(e,
                OkOpt(attr_parse_uint(e, "__dp")),
                map_Index(OkOpt(attr_parse_uint(e, "__ap")))))

DebugBuilder_from_elem_and_parent(e, p) ==
    IF \E k \in 1..Len(p.children) : p.children[k].tag \in {"accessportV1", "accessportV2"}
    THEN with_apid(e, p, attr_parse_uint(e, "__apid"))
    ELSE Ok(DebugBuilder_fields(e,
                OkOpt(attr_parse_uint(e, "__dp")),
                map_Index(OkOpt(attr_parse_uint(e, "__ap")))))

DebugBuilder_build(self) == self

\* Result::map(|bld| vec![bld])
map_vec(r) == IF IsOk(r) THEN Ok(<<Val(r)>>) ELSE r

DebugsBuilder_from_elem_and_parent(e, p) == map_vec(DebugBuilder_from_elem_and_parent(e, p))

DebugsBuilder_merge_parent_first(self, parent) == parent \o self
DebugsBuilder_merge(self, parent) == self \o parent
DebugsBuilder_merge_into(self, other) == self \o other
DebugsBuilder_build(self) == [k \in 1..Len(self) |-> DebugBuilder_build(self[k])]

(***************************************************************************)
(* <memory> and <algorithm> elements                                       *)
(***************************************************************************)
\* The characters of the access strings the documents use.
Chars(input) ==
    CASE input = "" -> {}
      [] input = "rx" -> {"r", "x"}
      [] input = "rw" -> {"r", "w"}
      [] input = "rwx" -> {"r", "w", "x"}
      [] input = "rwxpsnc" -> {"r", "w", "x", "p", "s", "n", "c"}
      [] input = "r?" -> {"r", "?"}

MemoryPermissions_from_str(input) ==
    [read |-> "r" \in Chars(input),
     write |-> "w" \in Chars(input),
     execute |-> "x" \in Chars(input),
     peripheral |-> "p" \in Chars(input),
     secure |-> "s" \in Chars(input),
     non_secure |-> "n" \in Chars(input),
     non_secure_callable |-> "c" \in Chars(input)]

\* str::contains, over the region ids the documents use.
contains(memtype, pat) ==
    \/ pat = "ROM" /\ memtype \in {"IROM1", "IROM2", "MyROM"}
    \/ pat = "RAM" /\ memtype \in {"IRAM1", "IRAM2"}

unwrap_or_false(r) == IF IsOk(r) THEN Val(r) ELSE FALSE

MemElem_from_elem(e) ==
    LET memtype == UnwrapOr(attribute(e, "id"), "")
        access == MemoryPermissions_from_str(
                      IF attribute(e, "access") # None THEN attribute(e, "access")[1]
                      ELSE IF contains(memtype, "ROM") THEN "rx"
                      ELSE IF contains(memtype, "RAM") THEN "rw"
                      ELSE "")
        name == Or(attribute(e, "id"), attribute(e, "name"))
        start == attr_parse_hex(e, "start")
        size == attr_parse_hex(e, "size")
    IN  IF name = None THEN Err("No name found for memory")
        ELSE IF ~IsOk(start) THEN start
        ELSE IF ~IsOk(size) THEN size
        ELSE Ok(<<name[1],
                  [p_name |-> attribute(e, "Pname"),
                   access |-> access,
                   start |-> Val(start),
                   size |-> Val(size),
                   startup |-> unwrap_or_false(attr_parse_NumberBool(e, "startup")),
                   default |-> unwrap_or_false(attr_parse_NumberBool(e, "default"))]>>)

merge_memories_parent_wins(lhs, rhs) ==
    rhs \cup {p \in lhs : ~contains_key(rhs, p[1])}

merge_memories(lhs, rhs) ==
    lhs \cup {p \in rhs : ~contains_key(lhs, p[1])}

\* str::replace('\\', "/"), over the file names the documents use.
replace_backslash(file_name) ==
    CASE file_name = "Flash\\A.FLM" -> "Flash/A.FLM"
      [] OTHER -> file_name

Algorithm_from_elem(e) ==
    LET file_name == attr_map(e, "name")
        start == attr_parse_hex(e, "start")
        size == attr_parse_hex(e, "size")
    IN  IF ~IsOk(file_name) THEN file_name
        ELSE IF ~IsOk(start) THEN start
        ELSE IF ~IsOk(size) THEN size
        ELSE Ok([file_name |-> replace_backslash(Val(file_name)),
                 start |-> Val(start),
                 size |-> Val(size),
                 ram_start |-> OkOpt(attr_parse_hex(e, "RAMstart")),
                 ram_size |-> OkOpt(attr_parse_hex(e, "RAMsize")),
                 default |-> unwrap_or_false(attr_parse_NumberBool(e, "default")),
                 style |-> UnwrapOr(OkOpt(attr_parse_AlgorithmStyle(e, "style")), "Keil")])

(***************************************************************************)
(* DeviceBuilder                                                           *)
(***************************************************************************)
DeviceBuilder_from_elem(e) ==
    [name |-> Or(attribute(e, "Dname"), attribute(e, "Dvariant")),
     vendor |-> attribute(e, "Dvendor"),
     memories |-> {},
     algorithms |-> <<>>,
     processor |-> None,
     debugs |-> <<>>,
     family |-> IF e.tag = "family" THEN attribute(e, "Dfamily") ELSE None,
     sub_family |-> IF e.tag = "subFamily" THEN attribute(e, "DsubFamily") ELSE None]

\* Some(pb) => pb.build(debugs)?, and the Device made of the builder's fields.
Device(self, processors) ==
    IF ~IsOk(processors) THEN processors
    ELSE Ok([processors |-> Val(processors),
             name |-> self.name[1],
             memories |-> self.memories,
             algorithms |-> self.algorithms,
             vendor |-> self.vendor,
             family |-> self.family[1],
             sub_family |-> self.sub_family])

DeviceBuilder_build(self) ==
    IF self.name = None THEN Err("Device found without a name")
    ELSE IF self.family = None THEN Err("Device found without a family")
    ELSE IF self.processor = None THEN Err("Device found without a processor")
    ELSE Device(self, ProcessorsBuilder_build(self.processor[1],
                                              DebugsBuilder_build(self.debugs)))

DeviceBuilder_add_parent(self, parent, hash_order) ==
    LET processor == IF self.processor # None
                     THEN ProcessorsBuilder_merge(self.processor[1], parent.processor, hash_order)
                     ELSE Ok(parent.processor)
    IN  IF ~IsOk(processor) THEN processor
        ELSE Ok([name |-> Or(self.name, parent.name),
                 algorithms |-> self.algorithms \o parent.algorithms,
                 memories |-> merge_memories(self.memories, parent.memories),
                 processor |-> IF self.processor # None THEN Some(Val(processor))
                               ELSE parent.processor,
                 debugs |-> DebugsBuilder_merge(self.debugs, parent.debugs),
                 vendor |-> Or(self.vendor, parent.vendor),
                 family |-> Or(self.family, parent.family),
                 sub_family |-> Or(self.sub_family, parent.sub_family)])

DeviceBuilder_add_processor(self, processor) ==
    [self EXCEPT !.processor =
        IF self.processor = None THEN Some(processor)
        ELSE Some(ProcessorsBuilder_merge_into(self.processor[1], processor))]

DeviceBuilder_add_debug(self, debug) ==
    [self EXCEPT !.debugs = DebugsBuilder_merge_into(self.debugs, debug)]

DeviceBuilder_add_memory(self, mem) ==
    [self EXCEPT !.memories = insert(self.memories, mem[1], mem[2])]

DeviceBuilder_add_algorithm(self, alg) ==
    [self EXCEPT !.algorithms = Append(self.algorithms, alg)]

(***************************************************************************)
(* The tree walker.  A walk is the record of what the loop over the        *)
(* children of one element has built so far: the element's own builder,    *)
(* the builders collected from its variants / devices / subfamilies, the   *)
(* warnings logged, and whether a panic has ended the parse.               *)
(***************************************************************************)
\* DeviceBuilder::add_memory / add_algorithm / add_processor / add_debug, by
\* the tag of the element that gave x.
add(self, tag, x) ==
    CASE tag = "memory" -> DeviceBuilder_add_memory(self, x)
      [] tag = "algorithm" -> DeviceBuilder_add_algorithm(self, x)
      [] tag = "processor" -> DeviceBuilder_add_processor(self, x)
      [] tag = "debug" -> DeviceBuilder_add_debug(self, x)

\* A walker arm in which a failing leaf also throws away the leaves attached before it.
ok_warn_map_resetting(w, r, tag) ==
    IF r.tag = "Panic" THEN [w EXCEPT !.panic = TRUE]
    ELSE [w EXCEPT !.local = IF ok_warn(r) = None
                             THEN [@ EXCEPT !.memories = {}, !.algorithms = <<>>,
                                            !.debugs = <<>>]
                             ELSE add(@, tag, ok_warn(r)[1]),
                   !.log = @ \o warning(r)]

\* r.ok_warn().map(|x| device.add_...(x)): a failure leaves a warning and the
\* builder as it was; a panic ends the walk.
ok_warn_map(w, r, tag) ==
    IF r.tag = "Panic" THEN [w EXCEPT !.panic = TRUE]
    ELSE [w EXCEPT !.local = IF ok_warn(r) = None THEN @ ELSE add(@, tag, ok_warn(r)[1]),
                   !.log = @ \o warning(r)]

\* The memory / algorithm / processor / debug arms, the same in the three walkers.
leaf(w, child, e) ==
    CASE child.tag = "memory" -> ok_warn_map(w, MemElem_from_elem(child), "memory")
      [] child.tag = "algorithm" -> ok_warn_map(w, Algorithm_from_elem(child), "algorithm")
      [] child.tag = "processor" ->
            ok_warn_map(w, ProcessorsBuilder_from_elem(child), "processor")
      [] child.tag = "debug" ->
            ok_warn_map(w, DebugsBuilder_from_elem_and_parent(child, e), "debug")
      [] OTHER -> w

walk(e) == [local |-> DeviceBuilder_from_elem(e), collected |-> <<>>, log |-> <<>>, panic |-> FALSE]

\* What the walk of a nested <device> or <subFamily> gave, taken into the walk
\* of the element around it.
collect(w, d) == [w EXCEPT !.collected = @ \o d.out, !.log = @ \o d.log, !.panic = d.panic]

\* flat_map(|bld| bld.add_parent(parent).ok_warn()) over the collected builders.
flat_map_ok_warn(r, rest) ==
    [out |-> (IF ok_warn(r) = None THEN <<>> ELSE <<ok_warn(r)[1]>>) \o rest.out,
     log |-> warning(r) \o rest.log]

RECURSIVE add_parent_all(_, _, _)
add_parent_all(builders, parent, hash_order) ==
    IF builders = <<>> THEN [out |-> <<>>, log |-> <<>>]
    ELSE flat_map_ok_warn(DeviceBuilder_add_parent(Head(builders), parent, hash_order),
                          add_parent_all(Tail(builders), parent, hash_order))

RECURSIVE parse_device_children(_, _, _)
parse_device_children(e, k, w) ==
    IF k > Len(e.children) \/ w.panic THEN w
    ELSE parse_device_children(e, k + 1,
             IF e.children[k].tag = "variant"
             THEN [w EXCEPT !.collected = Append(@, DeviceBuilder_from_elem(e.children[k]))]
             ELSE leaf(w, e.children[k], e))

\* What the walker returns of a walk w and the builders merged with its device.
walked(w, merged) ==
    IF w.panic THEN [panic |-> TRUE, out |-> <<>>, log |-> w.log]
    ELSE [panic |-> FALSE, out |-> merged.out, log |-> w.log \o merged.log]

\* What for_each over a lazy iterator would do: each variant merged with the
\* device as built from the children before it.
parse_device_merging_early(e, hash_order) ==
    LET w == parse_device_children(e, 1, walk(e))
        at == {k \in 1..Len(e.children) : e.children[k].tag = "variant"}
        before(k) == parse_device_children([e EXCEPT !.children = SubSeq(@, 1, k - 1)], 1,
                                           walk(e)).local
        nth(n) == CHOOSE k \in at : Cardinality({j \in at : j < k}) = n - 1
    IN  IF w.panic THEN [panic |-> TRUE, out |-> <<>>, log |-> w.log]
        ELSE IF w.collected = <<>> THEN [panic |-> FALSE, out |-> <<w.local>>, log |-> w.log]
        ELSE [panic |-> FALSE,
              out |-> [n \in 1..Len(w.collected) |->
                          Val(DeviceBuilder_add_parent(w.collected[n], before(nth(n)), hash_order))],
              log |-> w.log]

\* if variants.is_empty() { vec![device] } else { variants merged with the device }
device_or_variants(w, hash_order) ==
    IF w.collected = <<>> /\ ~w.panic
    THEN [panic |-> FALSE, out |-> <<w.local>>, log |-> w.log]
    ELSE walked(w, add_parent_all(w.collected, w.local, hash_order))

parse_device(e, hash_order) ==
    device_or_variants(parse_device_children(e, 1, walk(e)), hash_order)

RECURSIVE parse_sub_family_children(_, _, _, _)
parse_sub_family_children(e, k, w, hash_order) ==
    IF k > Len(e.children) \/ w.panic THEN w
    ELSE parse_sub_family_children(e, k + 1,
             IF e.children[k].tag = "device"
             THEN collect(w, parse_device(e.children[k], hash_order))
             ELSE leaf(w, e.children[k], e),
             hash_order)

sub_family_devices(w, hash_order) ==
    walked(w, add_parent_all(w.collected, w.local, hash_order))

parse_sub_family(e, hash_order) ==
    sub_family_devices(parse_sub_family_children(e, 1, walk(e), hash_order), hash_order)

RECURSIVE parse_family_children(_, _, _, _)
parse_family_children(e, k, w, hash_order) ==
    IF k > Len(e.children) \/ w.panic THEN w
    ELSE parse_family_children(e, k + 1,
             IF e.children[k].tag = "subFamily"
             THEN collect(w, parse_sub_family(e.children[k], hash_order))
             ELSE IF e.children[k].tag = "device"
             THEN collect(w, parse_device(e.children[k], hash_order))
             ELSE leaf(w, e.children[k], e),
             hash_order)

\* bldr.add_parent(&family_device).and_then(|dev| dev.build())
and_then_build(bldr) == IF IsOk(bldr) THEN DeviceBuilder_build(Val(bldr)) ELSE bldr

\* collect::<Result<Vec<Device>, Error>>(): the first error is the result.
collect_result(dev, rest) ==
    IF ~IsOk(dev) THEN dev
    ELSE IF ~IsOk(rest) THEN rest
    ELSE Ok(<<Val(dev)>> \o Val(rest))

\* map(|bldr| bldr.add_parent(&family_device).and_then(|dev| dev.build()))
\* collected into a Result<Vec<Device>, Error>.
RECURSIVE build_all(_, _, _)
build_all(builders, family_device, hash_order) ==
    IF builders = <<>> THEN Ok(<<>>)
    ELSE collect_result(
             and_then_build(DeviceBuilder_add_parent(Head(builders), family_device, hash_order)),
             build_all(Tail(builders), family_device, hash_order))

family_devices(w, hash_order) ==
    IF w.panic THEN [panic |-> TRUE, result |-> Err("panic"), log |-> w.log]
    ELSE [panic |-> FALSE, result |-> build_all(w.collected, w.local, hash_order),
          log |-> w.log]

parse_family(e, hash_order) ==
    family_devices(parse_family_children(e, 1, walk(e), hash_order), hash_order)

RECURSIVE extend_keep_first(_, _)
extend_keep_first(m, devs) ==
    IF devs = <<>> THEN m
    ELSE extend_keep_first(IF contains_key(m, Head(devs).name) THEN m
                           ELSE insert(m, Head(devs).name, Head(devs)), Tail(devs))

\* HashMap::extend with (dev.name, dev): a later device replaces an earlier one.
RECURSIVE extend(_, _)
extend(m, devs) ==
    IF devs = <<>> THEN m
    ELSE extend(insert(m, Head(devs).name, Head(devs)), Tail(devs))

(***************************************************************************)
(* Documents.  Every bound is a maximal number of elements of one kind.    *)
(***************************************************************************)
MaxLeaves == 2

SeqsUpTo(S, n) == UNION {[1..k -> S] : k \in 0..n}
Perms(S) == {s \in [1..Cardinality(S) -> S] : \A a, b \in 1..Cardinality(S) : s[a] = s[b] => a = b}

\* The Pname keys under an element, and the iteration orders a HashMap keyed by
\* them can have.
RECURSIVE PnameKeys(_)
PnameKeys(e) ==
    (IF e.tag = "processor" THEN {attribute(e, "Pname")} ELSE {})
    \cup UNION {PnameKeys(e.children[k]) : k \in 1..Len(e.children)}
HashOrders(e) == Perms(PnameKeys(e))

Processor_M4 == E("processor", {<<"Dcore", "Cortex-M4">>, <<"Dfpu", "SP_FPU">>}, <<>>)

Mem_IROM1_a == E("memory", {<<"id", "IROM1">>, <<"start", "0x0">>, <<"size", "0x1000">>}, <<>>)
Mem_IROM1_b ==
    E("memory", {<<"id", "IROM1">>, <<"start", "0x2000">>, <<"size", "0x100">>,
                 <<"access", "rwx">>}, <<>>)
Mem_IRAM1_a ==
    E("memory", {<<"name", "IRAM1">>, <<"start", "0x10">>, <<"size", "0x20">>,
                 <<"default", "1">>}, <<>>)
Mem_IRAM1_b ==
    E("memory", {<<"id", "IRAM1">>, <<"start", "4096">>, <<"size", "0X10">>,
                 <<"Pname", "CM0">>}, <<>>)
Mem_bad_start == E("memory", {<<"id", "IRAM1">>, <<"start", "zz">>, <<"size", "0x10">>}, <<>>)
Mem_no_name == E("memory", {<<"start", "0x0">>, <<"size", "0x10">>}, <<>>)
Alg_a ==
    E("algorithm", {<<"name", "Flash\\A.FLM">>, <<"start", "0x0">>, <<"size", "0x1000">>}, <<>>)
Alg_b ==
    E("algorithm", {<<"name", "B.FLM">>, <<"start", "0x1000">>, <<"size", "0x1000">>,
                    <<"style", "CMSIS">>, <<"RAMstart", "0x2000">>}, <<>>)
Alg_no_size == E("algorithm", {<<"name", "C.FLM">>, <<"start", "0x0">>}, <<>>)

\* Memory documents: one family, a device in it or in a subFamily of it, leaves
\* at the three levels.
MemDeviceLeaves == {Mem_IROM1_a, Mem_IRAM1_a, Mem_bad_start}
MemSubLeaves == {<<>>, <<Mem_IROM1_b>>, <<Mem_no_name, Mem_IRAM1_b>>, <<Alg_b>>}
MemFamilyLeaves ==
    {<<>>, <<Mem_IRAM1_b>>, <<Mem_IROM1_b, Mem_IRAM1_b>>, <<Mem_IROM1_a, Mem_IROM1_b>>,
     <<Alg_no_size, Alg_a>>}

Chain1(fattrs, fl, sl, dattrs, dl) ==
    E("devices", {}, <<
        E("family", fattrs,
          fl \o <<E("subFamily", {<<"DsubFamily", "S1">>}, sl \o <<E("device", dattrs, dl)>>)>>)>>)
Chain0(fattrs, fl, dattrs, dl) ==
    E("devices", {}, <<E("family", fattrs, <<E("device", dattrs, dl)>> \o fl)>>)

F1V == {<<"Dfamily", "F1">>, <<"Dvendor", "V">>}
D1 == {<<"Dname", "D1">>}

MemDocs ==
    { Chain1(F1V, <<Processor_M4>> \o fl, sl, D1, dl)
      : fl \in MemFamilyLeaves, sl \in MemSubLeaves,
        dl \in SeqsUpTo(MemDeviceLeaves, MaxLeaves) }
    \cup
    { Chain0(F1V, <<Processor_M4>> \o fl, D1, dl)
      : fl \in MemFamilyLeaves, dl \in SeqsUpTo(MemDeviceLeaves, MaxLeaves) }

\* Processor documents: <processor> elements at the three levels.
Proc_CM0 ==
    E("processor", {<<"Pname", "CM0">>, <<"Dcore", "Cortex-M0+">>, <<"Punits", "2">>}, <<>>)
Proc_CM0_fpu == E("processor", {<<"Pname", "CM0">>, <<"Dfpu", "DP_FPU">>}, <<>>)
Proc_CM0_3 ==
    E("processor", {<<"Pname", "CM0">>, <<"Dcore", "Cortex-M4">>, <<"Punits", "3">>,
                    <<"Dmpu", "MPU">>}, <<>>)
Proc_CM1_zero ==
    E("processor", {<<"Pname", "CM1">>, <<"Dcore", "Cortex-M7">>, <<"Punits", "0">>}, <<>>)
Proc_CM1_no_core ==
    E("processor", {<<"Pname", "CM1">>, <<"Dcore", "Cortex-M99">>, <<"Punits", "two">>,
                    <<"Dmpu", "1">>}, <<>>)

ProcDeviceLeaves == {Proc_CM0, Proc_CM0_fpu, Proc_CM1_zero}
ProcSubLeaves == {<<>>, <<Proc_CM1_no_core>>, <<Processor_M4>>}
ProcFamilyLeaves == {<<>>, <<Proc_CM0_3>>, <<Processor_M4, Proc_CM1_no_core>>, <<Proc_CM1_zero>>}

ProcDocs ==
    { Chain1(F1V, fl, sl, D1, dl)
      : fl \in ProcFamilyLeaves, sl \in ProcSubLeaves,
        dl \in SeqsUpTo(ProcDeviceLeaves, MaxLeaves) }

\* Name documents: two families; devices with equal names, without a name, without
\* a processor, with variants; a family without Dfamily; a child that is no family.
MaxDevices == 2

Dev_D1_V1 == E("device", {<<"Dname", "D1">>, <<"Dvendor", "V1">>}, <<Processor_M4>>)
Dev_D1_V2 == E("device", {<<"Dname", "D1">>, <<"Dvendor", "V2">>}, <<Mem_IROM1_a>>)
Dev_D2 == E("device", {<<"Dname", "D2">>}, <<Proc_CM0>>)
Dev_no_name == E("device", {<<"Dvendor", "V1">>}, <<Processor_M4>>)
Dev_variants ==
    E("device", {<<"Dname", "D3">>},
      <<E("variant", {<<"Dname", "D1">>, <<"Dvendor", "V3">>}, <<>>), Processor_M4,
        E("variant", {<<"Dvariant", "D4">>}, <<>>)>>)
Sub_D2_no_core ==
    E("subFamily", {<<"DsubFamily", "S2">>},
      <<E("device", {<<"Dname", "D2">>}, <<Proc_CM1_no_core>>)>>)
Sub_D1 ==
    E("subFamily", {<<"DsubFamily", "S1">>},
      <<Proc_CM0_fpu, E("device", {<<"Dname", "D1">>, <<"Dvendor", "V4">>}, <<Mem_IRAM1_a>>)>>)

NameDevices == {Dev_D1_V1, Dev_D1_V2, Dev_D2, Dev_no_name, Dev_variants, Sub_D2_no_core, Sub_D1}
FirstFamilies ==
    { E("family", {<<"Dfamily", "F0">>}, <<Dev_D1_V1, Dev_D2>>),
      E("family", {<<"Dfamily", "F0">>, <<"Dvendor", "V0">>}, <<Dev_variants>>),
      E("family", {<<"Dvendor", "V0">>}, <<Dev_D2>>),
      E("family", {<<"Dfamily", "F0">>}, <<Dev_D1_V2>>),
      E("", {}, <<>>) }

NameDocs ==
    { E("devices", {}, <<f, E("family", {<<"Dfamily", "F1">>}, <<Proc_CM0_3>> \o ds)>>)
      : f \in FirstFamilies, ds \in SeqsUpTo(NameDevices, MaxDevices) }

\* Debug documents: <debug> elements at the three levels, access port descriptors
\* beside them, the processors at the family level.
Dbg_plain == E("debug", {<<"__dp", "1">>, <<"__ap", "2">>, <<"svd", "dev.svd">>}, <<>>)
Dbg_CM0_unit1 ==
    E("debug", {<<"Pname", "CM0">>, <<"Punit", "1">>, <<"address", "4">>, <<"__dp", "3">>,
                <<"defaultResetSequence", "DevReset">>}, <<>>)
Dbg_apid1 ==
    E("debug", {<<"__apid", "1">>, <<"__dp", "5">>, <<"__ap", "6">>, <<"svd", "ap.svd">>}, <<>>)
Dbg_apid2_CM0 == E("debug", {<<"__apid", "2">>, <<"Pname", "CM0">>, <<"address", "8">>}, <<>>)
Dbg_bad_apid == E("debug", {<<"__apid", "one">>, <<"__dp", "7">>, <<"svd", "bad.svd">>}, <<>>)
Dbg_sub == E("debug", {<<"svd", "sub.svd">>, <<"__dp", "2">>, <<"address", "1">>}, <<>>)
Dbg_fam_CM0 ==
    E("debug", {<<"Pname", "CM0">>, <<"svd", "fam.svd">>, <<"__ap", "7">>, <<"__dp", "9">>,
                <<"defaultResetSequence", "FamReset">>}, <<>>)
Dbg_fam_unit0 == E("debug", {<<"Punit", "0">>, <<"address", "2">>}, <<>>)

AP_V1_1 == E("accessportV1", {<<"__apid", "1">>, <<"index", "2">>, <<"__dp", "0">>}, <<>>)
AP_V1_1_no_index == E("accessportV1", {<<"__apid", "1">>, <<"__dp", "4">>}, <<>>)
AP_V1_2 == E("accessportV1", {<<"__apid", "2">>, <<"index", "3">>}, <<>>)
AP_V2_1 == E("accessportV2", {<<"__apid", "1">>, <<"address", "0x100">>}, <<>>)
AP_V2_2 == E("accessportV2", {<<"__apid", "2">>, <<"address", "0x20">>, <<"__dp", "1">>}, <<>>)
AP_V3_2 == E("accessportV3", {<<"__apid", "2">>, <<"index", "9">>}, <<>>)
AP_V3_1 == E("accessportV3", {<<"__apid", "1">>, <<"index", "9">>}, <<>>)

DebugDeviceLeaves == {Dbg_plain, Dbg_CM0_unit1, Dbg_apid1, Dbg_apid2_CM0}
AccessPorts ==
    { <<>>, <<AP_V1_1>>, <<AP_V3_2, AP_V2_1>>, <<AP_V3_1>>, <<AP_V1_1_no_index, AP_V2_1, AP_V2_2>>,
      <<AP_V3_2, AP_V1_1, AP_V2_2, AP_V1_2>> }
DebugSubLeaves == {<<>>, <<Dbg_sub>>, <<AP_V1_2, Dbg_bad_apid, Dbg_apid1, Dbg_apid2_CM0, AP_V1_1>>}
DebugFamilyLeaves ==
    {<<>>, <<Dbg_fam_CM0>>, <<Dbg_fam_unit0, Dbg_plain>>,
     <<Mem_bad_start, Mem_IROM1_a, Alg_no_size, Alg_a, Dbg_plain>>}

DebugDocs ==
    { Chain1(F1V, <<Proc_CM0, Processor_M4>> \o fl, sl, D1, dl \o aps)
      : fl \in DebugFamilyLeaves, sl \in DebugSubLeaves, aps \in AccessPorts,
        dl \in SeqsUpTo(DebugDeviceLeaves, MaxLeaves) }

\* Variant documents: a device whose children are variants and leaves in any order.
MaxChildren == 3

Variant_A == E("variant", {<<"Dname", "D-A">>}, <<>>)
Variant_B == E("variant", {<<"Dvariant", "D-B">>, <<"Dvendor", "W">>}, <<Mem_IROM1_b>>)
VariantDeviceChildren == {Variant_A, Variant_B, Mem_IRAM1_a, Alg_a, Proc_CM0, Dbg_plain}

VariantDocs ==
    { Chain0({<<"Dfamily", "F1">>}, <<Processor_M4>>, {<<"Dname", "D">>, <<"Dvendor", "V">>}, dl)
      : dl \in SeqsUpTo(VariantDeviceChildren, MaxChildren) }

Docs == MemDocs \cup ProcDocs \cup NameDocs \cup DebugDocs \cup VariantDocs

(***************************************************************************)
(* Devices::from_elem: the try_fold over the children of <devices>.        *)
(***************************************************************************)
Init ==
    /\ doc \in Docs
    /\ idx = 1
    /\ res = {}
    /\ status = "running"
    /\ log = <<>>
    /\ ops = <<>>
    /\ sums = <<>>

\* One step of the fold: parse_family(&c)?, then res.extend(...).
FoldFamily ==
    /\ status = "running"
    /\ idx <= Len(doc.children)
    /\ \E hash_order \in HashOrders(doc.children[idx]) :
       \E add_this \in {parse_family(doc.children[idx], hash_order)} :
          /\ log' = log \o add_this.log
          /\ IF add_this.panic
             THEN status' = "panic" /\ UNCHANGED <<idx, res>>
             ELSE IF ~IsOk(add_this.result)
             THEN status' = "err" /\ UNCHANGED <<idx, res>>
             ELSE /\ res' = extend(res, Val(add_this.result))
                  /\ idx' = idx + 1
                  /\ UNCHANGED status
    /\ UNCHANGED <<doc, ops, sums>>

\* The fold is over: .map(Devices).
Return ==
    /\ status = "running"
    /\ idx > Len(doc.children)
    /\ status' = "ok"
    /\ UNCHANGED <<doc, idx, res, log, ops, sums>>

Next == FoldFamily \/ Return

Spec == Init /\ [][Next]_vars

(***************************************************************************)
(* The document seen from outside the parser: the leaves (a <device>       *)
(* without <variant> children, or one <variant>) of the families folded so *)
(* far, in document order, each with the elements that enclose it.         *)
(***************************************************************************)
ChildrenWithTag(e, tag) == SelectSeq(e.children, LAMBDA c : c.tag = tag)

DevicePaths(fam, sub, dev) ==
    LET vs == ChildrenWithTag(dev, "variant")
    IN  IF vs = <<>> THEN <<[fam |-> fam, sub |-> sub, dev |-> dev, var |-> None]>>
        ELSE [k \in 1..Len(vs) |-> [fam |-> fam, sub |-> sub, dev |-> dev, var |-> Some(vs[k])]]

RECURSIVE SubFamilyPaths(_, _, _)
SubFamilyPaths(fam, sub, k) ==
    IF k > Len(sub.children) THEN <<>>
    ELSE (IF sub.children[k].tag = "device"
          THEN DevicePaths(fam, Some(sub), sub.children[k]) ELSE <<>>)
         \o SubFamilyPaths(fam, sub, k + 1)

RECURSIVE FamilyPaths(_, _)
FamilyPaths(fam, k) ==
    IF k > Len(fam.children) THEN <<>>
    ELSE (IF fam.children[k].tag = "subFamily" THEN SubFamilyPaths(fam, fam.children[k], 1)
          ELSE IF fam.children[k].tag = "device" THEN DevicePaths(fam, None, fam.children[k])
          ELSE <<>>)
         \o FamilyPaths(fam, k + 1)

RECURSIVE DocPaths(_)
DocPaths(n) == IF n = 0 THEN <<>> ELSE DocPaths(n - 1) \o FamilyPaths(doc.children[n], 1)

\* The paths of the families the fold has gone through.
Folded == DocPaths(idx - 1)

\* The elements whose leaf children a path's device is built from, nearest first.
\* (The children of a <variant> are not walked.)
Levels(p) == <<p.dev>> \o p.sub \o <<p.fam>>
\* All the elements of a path, nearest first.
Chain(p) == p.var \o Levels(p)

FirstSome(s) == IF \E k \in 1..Len(s) : s[k] # None
                THEN s[CHOOSE k \in 1..Len(s) : s[k] # None /\ \A j \in 1..(k - 1) : s[j] = None]
                ELSE None

ElemName(e) == Or(attribute(e, "Dname"), attribute(e, "Dvariant"))
PathName(p) == FirstSome([k \in 1..Len(Chain(p)) |-> ElemName(Chain(p)[k])])

\* The last leaf of the folded families with a name: the one the mapping holds.
HasPath(name) == \E k \in 1..Len(Folded) : PathName(Folded[k]) = Some(name)
LastPath(name) ==
    Folded[CHOOSE k \in 1..Len(Folded) :
              /\ PathName(Folded[k]) = Some(name)
              /\ \A j \in (k + 1)..Len(Folded) : PathName(Folded[j]) # Some(name)]

(***************************************************************************)
(* C4: memory precedence                                                   *)
(***************************************************************************)
\* The <memory> children of e that parse, in document order, as <<key, Memory>>.
MemDecls(e) ==
    LET ms == SelectSeq(e.children, LAMBDA c : c.tag = "memory" /\ IsOk(MemElem_from_elem(c)))
    IN  [k \in 1..Len(ms) |-> Val(MemElem_from_elem(ms[k]))]
Declares(e, K) == \E k \in 1..Len(MemDecls(e)) : MemDecls(e)[k][1] = K
LastDecl(e, K) ==
    LET d == MemDecls(e)
    IN  d[CHOOSE k \in 1..Len(d) : d[k][1] = K /\ \A j \in (k + 1)..Len(d) : d[j][1] # K][2]
DeclaredKeys(p) ==
    UNION {{MemDecls(Levels(p)[l])[k][1] : k \in 1..Len(MemDecls(Levels(p)[l]))}
           : l \in 1..Len(Levels(p))}
NearestDeclaring(p, K) ==
    Levels(p)[CHOOSE l \in 1..Len(Levels(p)) :
                 /\ Declares(Levels(p)[l], K)
                 /\ \A j \in 1..(l - 1) : ~Declares(Levels(p)[j], K)]

\* C4: in every device of the mapping, a region key declared at the device
\* level has exactly the device-level Memory, whatever subFamily and family
\* declare for it; a key declared only above has the Memory of the nearest
\* level declaring it; there are no other keys and no key twice.
C4_MemoryPrecedence ==
    \A entry \in res :
        /\ HasPath(entry[1])
        /\ LET p == LastPath(entry[1])
               memories == entry[2].memories
           IN  /\ Keys(memories) = DeclaredKeys(p)
               /\ Cardinality(memories) = Cardinality(Keys(memories))
               /\ \A K \in DeclaredKeys(p) :
                     Get(memories, K) = LastDecl(NearestDeclaring(p, K), K)

\* A device in the mapping with a key declared at its own level and, with another
\* Memory, at an enclosing level; and one with a key declared only above.
C4_Witness ==
    /\ status = "ok"
    /\ \E entry \in res :
          LET p == LastPath(entry[1])
          IN  /\ \E K \in DeclaredKeys(p) :
                    /\ Declares(p.dev, K)
                    /\ Declares(p.fam, K)
                    /\ LastDecl(p.dev, K) # LastDecl(p.fam, K)
                    /\ Get(entry[2].memories, K) = LastDecl(p.dev, K)
              /\ \E K \in DeclaredKeys(p) : ~Declares(p.dev, K)

(***************************************************************************)
(* A leaf on its own: the family of a path with the other devices,         *)
(* subfamilies and variants taken out.                                     *)
(***************************************************************************)
PruneDevice(dev, p) ==
    [dev EXCEPT !.children = SelectSeq(@, LAMBDA c : c.tag # "variant" \/ Some(c) = p.var)]
PruneSubFamily(sub, p) ==
    [sub EXCEPT !.children =
        LET kept == SelectSeq(@, LAMBDA c : c.tag # "device" \/ c = p.dev)
        IN  [k \in 1..Len(kept) |->
                IF kept[k].tag = "device" THEN PruneDevice(kept[k], p) ELSE kept[k]]]
PruneFamily(p) ==
    [p.fam EXCEPT !.children =
        LET kept == SelectSeq(@, LAMBDA c :
                        \/ c.tag \notin {"device", "subFamily"}
                        \/ c.tag = "device" /\ p.sub = None /\ c = p.dev
                        \/ c.tag = "subFamily" /\ Some(c) = p.sub)
        IN  [k \in 1..Len(kept) |->
                IF kept[k].tag = "device" THEN PruneDevice(kept[k], p)
                ELSE IF kept[k].tag = "subFamily" THEN PruneSubFamily(kept[k], p)
                ELSE kept[k]]]

\* What the leaf's own add_parent chain and build() give, for each iteration order.
OwnBuilds(p) ==
    {parse_family(PruneFamily(p), hash_order).result : hash_order \in HashOrders(PruneFamily(p))}
OwnBuildSucceeds(p) == \A r \in OwnBuilds(p) : IsOk(r)
OwnDevices(p) == {Val(r)[1] : r \in {x \in OwnBuilds(p) : IsOk(x)}}

AllPaths == DocPaths(Len(doc.children))

(***************************************************************************)
(* C1: a failing build() leaves out one device only                        *)
(***************************************************************************)
\* C1: when the parse is over, it has returned a mapping, and every leaf whose own
\* build() succeeds is in it, whatever the other leaves of the document do.
C1_OnlyTheFailingDeviceIsLeftOut ==
    status \in {"ok", "err"} =>
        \A k \in 1..Len(AllPaths) :
            OwnBuildSucceeds(AllPaths[k]) =>
                status = "ok" /\ contains_key(res, PathName(AllPaths[k])[1])

(***************************************************************************)
(* C2: every device of the mapping has a processor                         *)
(***************************************************************************)
\* C2: every Device in the mapping has at least one Processor record.
C2_EveryDeviceHasAProcessor ==
    \A entry \in res : Len(entry[2].processors) >= 1

(***************************************************************************)
(* C3: unit expansion                                                      *)
(***************************************************************************)
\* The builders of the <processor> children of e, in document order.
ProcDecls(e) ==
    LET ps == ChildrenWithTag(e, "processor")
    IN  [k \in 1..Len(ps) |-> ProcessorBuilder_from_elem(ps[k])]
ProcDeclsNamed(e, pname) == SelectSeq(ProcDecls(e), LAMBDA b : b.name = pname)
DeclaredPnames(p) ==
    UNION {{ProcDecls(Levels(p)[l])[k].name : k \in 1..Len(ProcDecls(Levels(p)[l]))}
           : l \in 1..Len(Levels(p))}
\* Punits of pname at a level (of the level's first <processor> with that Pname).
UnitsAt(e, pname) ==
    IF ProcDeclsNamed(e, pname) = <<>> THEN None ELSE ProcDeclsNamed(e, pname)[1].units
\* The Punits a Pname is declared with: that of the nearest level giving one, else 1.
DeclaredUnits(p, pname) ==
    UnwrapOr(FirstSome([l \in 1..Len(Levels(p)) |-> UnitsAt(Levels(p)[l], pname)]), 1)
OncePerLevel(p, pname) ==
    \A l \in 1..Len(Levels(p)) : Len(ProcDeclsNamed(Levels(p)[l], pname)) <= 1
\* How many of the records carry the Pname and the unit.
Records(processors, pname, unit) ==
    Cardinality({k \in 1..Len(processors) :
                    processors[k].name = pname /\ processors[k].unit = unit})
UnitsExactlyOnce(processors, pname, n) ==
    /\ \A unit \in 0..(n - 1) : Records(processors, pname, unit) = 1
    /\ \A k \in 1..Len(processors) :
          processors[k].name = pname => processors[k].unit \in 0..(n - 1)

C9_LastDeviceOfANameWins ==
    status = "ok" =>
        /\ Keys(res) = {PathName(AllPaths[k])[1] : k \in 1..Len(AllPaths)}
        /\ Cardinality(res) = Cardinality(Keys(res))
        /\ \A entry \in res : entry[2] \in OwnDevices(LastPath(entry[1]))

\* A mapping returned for a document where a name is that of two leaves of one
\* family, or of two families, that build different devices.
C9_Witness ==
    /\ status = "ok"
    /\ \E a, b \in 1..Len(AllPaths) :
          /\ a < b
          /\ PathName(AllPaths[a]) = PathName(AllPaths[b])
          /\ AllPaths[a].fam = AllPaths[b].fam
          /\ OwnDevices(AllPaths[a]) \cap OwnDevices(AllPaths[b]) = {}
    /\ \E a, b \in 1..Len(AllPaths) :
          /\ a < b
          /\ PathName(AllPaths[a]) = PathName(AllPaths[b])
          /\ AllPaths[a].fam # AllPaths[b].fam
          /\ OwnDevices(AllPaths[a]) \cap OwnDevices(AllPaths[b]) = {}

(***************************************************************************)
(* C5: the first matching <debug> record with an attribute gives it        *)
(***************************************************************************)
\* The records of the <debug> children of e that parse, in document order.
DebugRecs(e) ==
    LET ds == SelectSeq(e.children, LAMBDA c :
                  c.tag = "debug" /\ IsOk(DebugBuilder_from_elem_and_parent(c, e)))
    IN  [k \in 1..Len(ds) |-> Val(DebugBuilder_from_elem_and_parent(ds[k], e))]
RECURSIVE Concat(_)
Concat(ss) == IF ss = <<>> THEN <<>> ELSE Head(ss) \o Concat(Tail(ss))
\* Device-level records, then subFamily-level, then family-level.
DebugRecsOf(p) == Concat([l \in 1..Len(Levels(p)) |-> DebugRecs(Levels(p)[l])])
Matches(d, pr) ==
    /\ (d.name = None \/ d.name = pr.name)
    /\ (d.unit = None \/ d.unit = Some(pr.unit))
Carriers(recs, pr, attr) == {k \in 1..Len(recs) : Matches(recs[k], pr) /\ recs[k][attr] # None}
FirstCarried(recs, pr, attr) ==
    IF Carriers(recs, pr, attr) = {} THEN None
    ELSE recs[CHOOSE k \in Carriers(recs, pr, attr) :
                  \A j \in Carriers(recs, pr, attr) : k <= j][attr]

\* C5: every Processor of every device of the mapping has, for dp, ap, address,
\* svd and default_reset_sequence, the value of the first record that matches it
\* and carries the attribute, device-level records first, then subFamily, then
\* family, each level in document order; without such a record dp = 0,
\* ap = Index(0), and the others are absent.
C5_DebugFirstWins ==
    \A entry \in res :
        /\ HasPath(entry[1])
        /\ \A k \in 1..Len(entry[2].processors) :
              LET pr == entry[2].processors[k]
                  recs == DebugRecsOf(LastPath(entry[1]))
              IN  /\ pr.dp = UnwrapOr(FirstCarried(recs, pr, "dp"), 0)
                  /\ pr.ap = UnwrapOr(FirstCarried(recs, pr, "ap"), AccessPort_Index(0))
                  /\ pr.address = FirstCarried(recs, pr, "address")
                  /\ pr.svd = FirstCarried(recs, pr, "svd")
                  /\ pr.default_reset_sequence = FirstCarried(recs, pr, "default_reset_sequence")

\* A Processor whose svd is the device level's although the family has a matching
\* record with another svd, whose default_reset_sequence is the family's, and
\* another Processor of the same device left with the defaults.
C5_Witness ==
    /\ status = "ok"
    /\ \E entry \in res :
          LET p == LastPath(entry[1])
          IN  /\ \E k \in 1..Len(entry[2].processors) :
                    LET pr == entry[2].processors[k]
                    IN  /\ FirstCarried(DebugRecs(p.dev), pr, "svd") # None
                        /\ FirstCarried(DebugRecs(p.fam), pr, "svd") # None
                        /\ FirstCarried(DebugRecs(p.fam), pr, "svd")
                              # FirstCarried(DebugRecs(p.dev), pr, "svd")
                        /\ pr.svd = FirstCarried(DebugRecs(p.dev), pr, "svd")
                        /\ FirstCarried(DebugRecs(p.dev), pr, "default_reset_sequence") = None
                        /\ pr.default_reset_sequence # None
              /\ \E k \in 1..Len(entry[2].processors) :
                    /\ entry[2].processors[k].address = None
                    /\ entry[2].processors[k].default_reset_sequence = None

(***************************************************************************)
(* C6: resolution through the access port descriptors                      *)
(***************************************************************************)
\* The elements of the document whose children are walked for leaves.
LevelElems ==
    UNION {{AllPaths[k].fam, AllPaths[k].dev} \cup {AllPaths[k].sub[j] : j \in 1..Len(AllPaths[k].sub)}
           : k \in 1..Len(AllPaths)}
IsNumeral(a) == a # None /\ \E n \in 1..Len(Digits) : Digits[n] = a[1]
\* The accessportV1 / accessportV2 children of e with the __apid a, in document order.
Descriptors(e, a) ==
    SelectSeq(e.children, LAMBDA c :
        c.tag \in {"accessportV1", "accessportV2"} /\ IsNumeral(a) /\ attribute(c, "__apid") = a)

\* C6: once the parse is over, every <debug> whose __apid is that of an
\* accessportV1 / accessportV2 child of its parent has given a record with the
\* ap of that descriptor (Index(index) for V1, Address(address) for V2) and the
\* descriptor's __dp, not the element's own __dp / __ap.
C6_DescriptorGivesApAndDp ==
    status # "running" =>
        \A e \in LevelElems : \A k \in 1..Len(e.children) :
            LET c == e.children[k]
                ds == Descriptors(e, attribute(c, "__apid"))
                r == DebugBuilder_from_elem_and_parent(c, e)
            IN  (c.tag = "debug" /\ ds # <<>>) =>
                    /\ IsOk(r)
                    /\ Val(r).dp = OkOpt(attr_parse_uint(ds[1], "__dp"))
                    /\ ds[1].tag = "accessportV1" =>
                          Val(r).ap = map_Index(OkOpt(attr_parse_uint(ds[1], "index")))
                    /\ ds[1].tag = "accessportV2" =>
                          Val(r).ap = map_Address(OkOpt(attr_parse_hex(ds[1], "address")))

(***************************************************************************)
(* C7: a leaf that fails to parse is dropped and nothing else changes      *)
(***************************************************************************)
RemoveChild(e, k) ==
    [e EXCEPT !.children = SubSeq(@, 1, k - 1) \o SubSeq(@, k + 1, Len(@))]
ReplaceChild(e, k, c) == [e EXCEPT !.children[k] = c]

\* The walk of the children of a family / subFamily / device element.
WalkOf(e, hash_order) ==
    IF e.tag = "device" THEN parse_device_children(e, 1, walk(e))
    ELSE IF e.tag = "subFamily" THEN parse_sub_family_children(e, 1, walk(e), hash_order)
    ELSE parse_family_children(e, 1, walk(e), hash_order)

LeafResult(c, e) ==
    IF c.tag = "memory" THEN MemElem_from_elem(c)
    ELSE IF c.tag = "algorithm" THEN Algorithm_from_elem(c)
    ELSE IF c.tag = "debug" THEN DebugsBuilder_from_elem_and_parent(c, e)
    ELSE Ok(c)
\* The children of e that are <memory>, <algorithm> or <debug> elements and fail to parse.
FailingLeaves(e) == {k \in 1..Len(e.children) : LeafResult(e.children[k], e).tag = "Err"}

\* The walk of e is, but for one more warning, the walk of e without the failing leaf.
DroppedAlone(e, k, hash_order) ==
    LET with == WalkOf(e, hash_order)
        without == WalkOf(RemoveChild(e, k), hash_order)
    IN  /\ with.local = without.local
        /\ with.collected = without.collected
        /\ with.panic = without.panic
        /\ with.panic \/ Len(with.log) = Len(without.log) + 1

AlgDecls(e) ==
    LET as == SelectSeq(e.children, LAMBDA c : c.tag = "algorithm" /\ IsOk(Algorithm_from_elem(c)))
    IN  [k \in 1..Len(as) |-> Val(Algorithm_from_elem(as[k]))]
MemoriesOf(e) ==
    {<<MemDecls(e)[k][1], LastDecl(e, MemDecls(e)[k][1])>> : k \in 1..Len(MemDecls(e))}
\* What a leaf of a <device> element is to hold: its own name and vendor, else the
\* device's, and the leaves of the device, wherever they stand among its children.
LeafOfDevice(dev, own) ==
    [name |-> FirstSome([k \in 1..Len(own \o <<dev>>) |-> ElemName((own \o <<dev>>)[k])]),
     vendor |-> FirstSome([k \in 1..Len(own \o <<dev>>) |->
                              attribute((own \o <<dev>>)[k], "Dvendor")]),
     memories |-> MemoriesOf(dev),
     algorithms |-> AlgDecls(dev),
     processor |-> IF ProcDecls(dev) = <<>> THEN None ELSE Some(ProcDecls(dev)),
     debugs |-> DebugRecs(dev),
     family |-> None,
     sub_family |-> None]
DeviceElems == {AllPaths[k].dev : k \in 1..Len(AllPaths)}

\* C8: parse_device gives one builder, the device's own, for a <device> without
\* <variant> children, and otherwise one per <variant>, in document order, each
\* with the vendor (unless the variant has its own), memories, algorithms,
\* processors and debug records of the device, whether they stand before or
\* after the <variant>; and when the parse returns a mapping every such leaf
\* is in it.  Stated of the documents whose parse has ended.
C8_OneDevicePerVariant ==
    /\ status # "running" =>
       \A dev \in DeviceElems : \A hash_order \in HashOrders(dev) :
          LET r == parse_device(dev, hash_order)
              vs == ChildrenWithTag(dev, "variant")
          IN  r.panic \/
              IF vs = <<>> THEN r.out = <<LeafOfDevice(dev, <<>>)>>
              ELSE r.out = [k \in 1..Len(vs) |-> LeafOfDevice(dev, <<vs[k]>>)]
    /\ status = "ok" =>
          \A k \in 1..Len(AllPaths) : contains_key(res, PathName(AllPaths[k])[1])

\* A mapping returned with the devices of two variants, one standing before and
\* one after a <memory> and a <processor> of their device that both inherit.
C8_Witness ==
    /\ status = "ok"
    /\ \E a, b \in 1..Len(AllPaths) :
          LET dev == AllPaths[a].dev
          IN  /\ AllPaths[b].dev = dev
              /\ AllPaths[a].var # None /\ AllPaths[b].var # None
              /\ PathName(AllPaths[a]) # PathName(AllPaths[b])
              /\ \E i, j, k \in 1..Len(dev.children) :
                    /\ i < j /\ j < k
                    /\ dev.children[i] = AllPaths[a].var[1]
                    /\ dev.children[j].tag \in {"memory", "processor"}
                    /\ dev.children[k] = AllPaths[b].var[1]
              /\ \A n \in {PathName(AllPaths[a])[1], PathName(AllPaths[b])[1]} :
                    /\ contains_key(res, n)
                    /\ Get(res, n).vendor \in {Some("V"), Some("W")}
                    /\ (MemoriesOf(dev) # {} => Get(res, n).memories # {})

(***************************************************************************)
(* add_parent on its own: three builders v, d, f (child, middle,           *)
(* outermost), each the builder the walk makes of one element, merged in   *)
(* the two groupings.                                                      *)
(***************************************************************************)
PB_A_M3 == E("processor", {<<"Pname", "A">>, <<"Dcore", "Cortex-M3">>}, <<>>)
PB_A_M4_units == E("processor", {<<"Pname", "A">>, <<"Dcore", "Cortex-M4">>, <<"Punits", "2">>}, <<>>)
PB_A_fpu == E("processor", {<<"Pname", "A">>, <<"Dfpu", "FPU">>}, <<>>)
PB_B ==
    E("processor", {<<"Pname", "B">>, <<"Dcore", "Cortex-M7">>, <<"Dmpu", "MPU">>,
                    <<"Punits", "2">>}, <<>>)
PB_B_units == E("processor", {<<"Pname", "B">>, <<"Punits", "3">>}, <<>>)

MergeElems ==
    { E("variant", {<<"Dvariant", "X">>}, <<>>),
      E("device", {<<"Dname", "D">>}, <<PB_A_M3, PB_A_M4_units, Mem_IROM1_a>>),
      E("device", {<<"Dname", "E">>, <<"Dvendor", "W">>}, <<PB_A_fpu, Dbg_plain, Alg_a>>),
      E("subFamily", {<<"DsubFamily", "S">>}, <<Processor_M4, PB_B_units, Mem_IRAM1_a>>),
      E("subFamily", {<<"DsubFamily", "T">>}, <<Alg_b, Dbg_sub>>),
      E("family", {<<"Dfamily", "F">>, <<"Dvendor", "V">>}, <<PB_B, Mem_IROM1_b, Dbg_fam_CM0>>),
      E("family", {<<"Dfamily", "G">>}, <<PB_A_M4_units, Alg_a>>) }
MergeBuilders == {WalkOf(e, <<>>).local : e \in MergeElems}
MergeOrders == Perms({None, Some("A"), Some("B")})

InitMerge ==
    /\ ops \in [1..3 -> MergeBuilders]
    /\ sums = <<>>
    /\ doc = E("devices", {}, <<>>)
    /\ idx = 1
    /\ res = {}
    /\ status = "running"
    /\ log = <<>>

\* (v.add_parent(d)).add_parent(f) and v.add_parent(d.add_parent(f)).
AddParents ==
    /\ sums = <<>>
    /\ ops # <<>>
    /\ \E hash_order \in MergeOrders :
          sums' = << Val(DeviceBuilder_add_parent(
                           Val(DeviceBuilder_add_parent(ops[1], ops[2], hash_order)),
                           ops[3], hash_order)),
                     Val(DeviceBuilder_add_parent(
                           ops[1],
                           Val(DeviceBuilder_add_parent(ops[2], ops[3], hash_order)),
                           hash_order)) >>
    /\ UNCHANGED <<doc, idx, res, status, log, ops>>

\* v.add_parent(d) alone.
AddParent ==
    /\ sums = <<>>
    /\ ops # <<>>
    /\ \E hash_order \in MergeOrders :
          sums' = << Val(DeviceBuilder_add_parent(ops[1], ops[2], hash_order)) >>
    /\ UNCHANGED <<doc, idx, res, status, log, ops>>

NextMerge == AddParents \/ AddParent

SpecMerge == InitMerge /\ [][NextMerge]_vars

(***************************************************************************)
(* C10: add_parent is associative                                          *)
(***************************************************************************)
\* The processor builders of a builder as a bag: how many times each occurs.
Count(processor, b) ==
    IF processor = None THEN 0
    ELSE Cardinality({k \in 1..Len(processor[1]) : processor[1][k] = b})
SameProcessors(p, q) ==
    /\ (p = None) = (q = None)
    /\ p # None =>
          /\ Len(p[1]) = Len(q[1])
          /\ \A k \in 1..Len(p[1]) : Count(p, p[1][k]) = Count(q, p[1][k])
SameBuilder(a, b) ==
    /\ a.name = b.name /\ a.vendor = b.vendor
    /\ a.family = b.family /\ a.sub_family = b.sub_family
    /\ a.algorithms = b.algorithms
    /\ a.memories = b.memories
    /\ a.debugs = b.debugs
    /\ SameProcessors(a.processor, b.processor)

\* C10: (v.add_parent(d)).add_parent(f) and v.add_parent(d.add_parent(f)) are the
\* same builder, the processor builders taken as a bag.
C10_AddParentAssociative ==
    Len(sums) = 2 => SameBuilder(sums[1], sums[2])

(***************************************************************************)
(* C11: <processor> elements of one level that share a Pname               *)
(***************************************************************************)
\* No level gives the Pname zero units.
NoZeroUnits(p, pname) ==
    \A l \in 1..Len(Levels(p)) : \A k \in 1..Len(ProcDeclsNamed(Levels(p)[l], pname)) :
        ProcDeclsNamed(Levels(p)[l], pname)[k].units # Some(0)

\* C11: for every device of the mapping, every level of its chain and every
\* Pname that the level declares in n <processor> elements (none of the levels
\* giving it zero units), each of the n builders has its own records: there are
\* at least n records with that Pname and unit 0, whatever the levels above declare.
C11_SamePnameBuildersKeptApart ==
    \A entry \in res :
        HasPath(entry[1]) =>
            \A l \in 1..Len(Levels(LastPath(entry[1]))) :
                \A pname \in DeclaredPnames(LastPath(entry[1])) :
                    NoZeroUnits(LastPath(entry[1]), pname) =>
                        Records(entry[2].processors, pname, 0)
                            >= Len(ProcDeclsNamed(Levels(LastPath(entry[1]))[l], pname))

(***************************************************************************)
(* C12: an __apid that no accessportV1 / accessportV2 child has            *)
(***************************************************************************)
HasAccessPortV1V2(e) ==
    \E k \in 1..Len(e.children) : e.children[k].tag \in {"accessportV1", "accessportV2"}

\* The <debug> children of e with a numeral __apid that no accessportV1 /
\* accessportV2 child of e has, e having such children.
Unresolved(e) ==
    {k \in 1..Len(e.children) :
        /\ e.children[k].tag = "debug"
        /\ HasAccessPortV1V2(e)
        /\ IsNumeral(attribute(e.children[k], "__apid"))
        /\ Descriptors(e, attribute(e.children[k], "__apid")) = <<>>}

\* C12: once the parse is over, every <debug> with an __apid that no
\* accessportV1 / accessportV2 child of its parent has (the parent having such
\* children) has ended with the error "Unable to find Access Port", whatever the
\* other children of the parent are; it has not panicked.
C12_UnknownApidIsRecoverable ==
    status # "running" =>
        \A e \in LevelElems : \A k \in Unresolved(e) :
            DebugBuilder_from_elem_and_parent(e.children[k], e)
                = Err("Unable do find Access Port with id")

(***************************************************************************)
(* C13: the merge of processor builders with pairwise distinct Pnames      *)
(***************************************************************************)
\* The builders of an Option<ProcessorsBuilder>, none when it is None.
Builders(processor) == IF processor = None THEN <<>> ELSE processor[1]
Pnames(processor) == {Builders(processor)[k].name : k \in 1..Len(Builders(processor))}
DistinctPnames(processor) ==
    \A i, j \in 1..Len(Builders(processor)) :
        Builders(processor)[i].name = Builders(processor)[j].name => i = j
\* The field of the entry with the Pname, absent when there is no such entry.
FieldOf(processor, pname, field) ==
    IF pname \in Pnames(processor)
    THEN (CHOOSE b \in {Builders(processor)[k] : k \in 1..Len(Builders(processor))} :
              b.name = pname)[field]
    ELSE None

\* C13: of v.add_parent(d), the Pnames of v and those of d pairwise distinct:
\* when v has no processor builders the result has d's; otherwise it has one
\* builder for every Pname of either side (an absent Pname being a key of its
\* own), whose core, units, fpu and mpu are v's where v's entry has the field,
\* else d's, else absent.
C13_ProcessorsMergedByPname ==
    (Len(sums) = 1 /\ DistinctPnames(ops[1].processor) /\ DistinctPnames(ops[2].processor)) =>
        IF ops[1].processor = None THEN sums[1].processor = ops[2].processor
        ELSE /\ sums[1].processor # None
             /\ DistinctPnames(sums[1].processor)
             /\ Pnames(sums[1].processor) = Pnames(ops[1].processor) \cup Pnames(ops[2].processor)
             /\ \A pname \in Pnames(sums[1].processor) :
                   \A field \in {"core", "units", "fpu", "mpu"} :
                       FieldOf(sums[1].processor, pname, field)
                           = Or(FieldOf(ops[1].processor, pname, field),
                                FieldOf(ops[2].processor, pname, field))

\* A merge done in which a Pname of both sides has its units from the child,
\* although the parent gives other units, and its core from the parent; the
\* child's builder without a Pname is kept as it is, next to the named one.
C13_Witness ==
    /\ Len(sums) = 1
    /\ DistinctPnames(ops[1].processor) /\ DistinctPnames(ops[2].processor)
    /\ \E pname \in Pnames(ops[1].processor) \cap Pnames(ops[2].processor) :
          /\ pname # None
          /\ FieldOf(ops[1].processor, pname, "units") # None
          /\ FieldOf(ops[2].processor, pname, "units") # None
          /\ FieldOf(ops[1].processor, pname, "units") # FieldOf(ops[2].processor, pname, "units")
          /\ FieldOf(sums[1].processor, pname, "units") = FieldOf(ops[1].processor, pname, "units")
          /\ FieldOf(ops[1].processor, pname, "core") = None
          /\ FieldOf(sums[1].processor, pname, "core") # None
    /\ None \in Pnames(ops[1].processor) \ Pnames(ops[2].processor)
    /\ FieldOf(sums[1].processor, None, "core") = FieldOf(ops[1].processor, None, "core")

(***************************************************************************)
(* C14: the path of the debug resolver                                     *)
(***************************************************************************)
\* The element without its own __dp and __ap attributes.
WithoutDpAp(c) == [c EXCEPT !.attrs = {a \in @ : a[1] \notin {"__dp", "__ap"}}]
DebugChildren(e) == {k \in 1..Len(e.children) : e.children[k].tag = "debug"}

\* C14: once the parse is over, for every <debug> child c of a walked element e:
\* when e has no accessportV1 and no accessportV2 child, c gives a record whose
\* dp and ap are c's own __dp and __ap (ap as Index), absent where the attribute
\* is missing, whether or not c has an __apid; when e has such a child, c gives
\* what it gives without its own __dp and __ap.
C14_PathChosenByParentsChildren ==
    status # "running" =>
        \A e \in LevelElems : \A k \in DebugChildren(e) :
            IF HasAccessPortV1V2(e)
            THEN DebugBuilder_from_elem_and_parent(e.children[k], e)
                     = DebugBuilder_from_elem_and_parent(WithoutDpAp(e.children[k]), e)
            ELSE /\ IsOk(DebugBuilder_from_elem_and_parent(e.children[k], e))
                 /\ Val(DebugBuilder_from_elem_and_parent(e.children[k], e)).dp
                       = (IF attribute(e.children[k], "__dp") = None THEN None
                          ELSE OkOpt(uint_from_str(attribute(e.children[k], "__dp")[1])))
                 /\ Val(DebugBuilder_from_elem_and_parent(e.children[k], e)).ap
                       = (IF attribute(e.children[k], "__ap") = None THEN None
                          ELSE map_Index(OkOpt(uint_from_str(attribute(e.children[k], "__ap")[1]))))

\* A mapping returned for a document with a <debug> that has an __apid, a __dp
\* and an __ap under a parent without accessportV1 / accessportV2 children (but
\* with an accessportV3 child of that __apid), one with an __apid and no __dp
\* and __ap under such a parent, and one with all three resolved through a
\* descriptor of its parent.
C14_Witness ==
    /\ status = "ok"
    /\ \E e \in LevelElems :
          /\ ~HasAccessPortV1V2(e)
          /\ \E j \in 1..Len(e.children) :
                /\ e.children[j].tag = "accessportV3"
                /\ \E k \in DebugChildren(e) :
                      /\ attribute(e.children[k], "__apid") = attribute(e.children[j], "__apid")
                      /\ attribute(e.children[k], "__dp") # None
                      /\ attribute(e.children[k], "__ap") # None
          /\ \E k \in DebugChildren(e) :
                /\ attribute(e.children[k], "__apid") # None
                /\ attribute(e.children[k], "__dp") = None
                /\ attribute(e.children[k], "__ap") = None
    /\ \E e \in LevelElems :
          /\ HasAccessPortV1V2(e)
          /\ \E k \in DebugChildren(e) :
                /\ attribute(e.children[k], "__dp") # None
                /\ attribute(e.children[k], "__ap") # None
                /\ IsOk(DebugBuilder_from_elem_and_parent(e.children[k], e))

====
